---- MODULE Spec2Model ----
(***************************************************************************)
(* Model of the legal-consultation workflow of tool.py: the two-node       *)
(* LangGraph graph (start_interview -> generate_report -> END) compiled at *)
(* module load, and run_agent, which builds the graph input and invokes    *)
(* the graph.  Text is modelled as sequences of one-character strings, so  *)
(* that formatting and emptiness tests are computed, not assumed.          *)
(***************************************************************************)
EXTENDS Integers, Sequences, FiniteSets, TLC

\* ------------------------------------------------------------------ bounds
\* Largest number of probing questions the question generator returns
\* (QueryDetails.probing_questions is an unconstrained List[str]).
MaxQuestions == 3

\* ------------------------------------------------------------ text literals
QuestionLabel == <<"Q","u","e","s","t","i","o","n"," ">>

ColonSpace == <<":"," ">>

InstructionText == <<
    "P","l","e","a","s","e"," ","a","n","s","w","e","r"," ","t","h","e"," ",
    "q","u","e","s","t","i","o","n","s"," ","a","b","o","v","e"," ","t","o",
    " ","t","h","e"," ","b","e","s","t"," ","o","f"," ","y","o","u","r"," ",
    "a","b","i","l","i","t","y","."," ","I"," ","w","i","l","l"," ","g","e",
    "n","e","r","a","t","e"," ","a"," ","r","e","p","o","r","t"," ","o","n",
    "c","e"," ","I"," ","h","a","v","e"," ","y","o","u","r"," ","a","n","s",
    "w","e","r","s","." >>

InitialQueryLabel == <<
    "I","n","i","t","i","a","l"," ","Q","u","e","r","y",":"," " >>

UserAnswersLabel == <<
    "\n","\n","U","s","e","r","'","s"," ","A","n","s","w","e","r","s",":",
    "\n" >>

NewLine == <<"\n">>

HumanType == <<"h","u","m","a","n">>

DecimalDigits == <<"0","1","2","3","4","5","6","7","8","9">>

\* str(n) for a natural number n, as the f-string renders {i+1}
RECURSIVE IntToStr(_)
IntToStr(n) ==
    IF n < 10 THEN <<DecimalDigits[n + 1]>>
    ELSE IntToStr(n \div 10) \o <<DecimalDigits[(n % 10) + 1]>>

\* ------------------------------------------------------------ input domains
\* Texts a caller may pass as initial_query
Queries == { <<>>, <<"r","e","n","t","?">>, <<"b","a","i","l">> }

\* Texts a caller may pass as user_answers: absent, whitespace-only, real
Answers == { <<>>, <<" ">>, <<"P","u","n","e">> }

\* Question texts the generation service may put in probing_questions
QuestionTexts == { <<"W","h","e","n","?">>, <<"W","h","o","?">> }

\* Report texts the generation service may put in report_text
ReportTexts == { <<"I","P","C"," ","4","2","0">>, <<"N","o","t","i","c","e">> }

\* Every probing_questions list of at most MaxQuestions entries
QuestionSets == UNION { [1..n -> QuestionTexts] : n \in 0..MaxQuestions }

\* ---------------------------------------------------------------- messages
\* HumanMessage(content=...): type "human" and the content text
HumanMessage(content) == [type |-> HumanType, content |-> content]

\* a reducer that keeps only the newest value, as a plain channel would
ReducerReplace(x, y) == y

\* a reducer that concatenates in the wrong order
ReducerPrepend(x, y) == y \o x

\* The messages reducer of InterviewState: lambda x, y: x + y
Reducer(x, y) == x \o y

\* Python's `needle in text` on strings
Contains(text, needle) ==
    \E i \in 0..(Len(text) - Len(needle)) :
        SubSeq(text, i + 1, i + Len(needle)) = needle

\* question numbering that forgets the + 1 of {i+1}
QuestionMessagesZeroBased(probing_questions) ==
    [i \in 1..Len(probing_questions) |->
        HumanMessage(QuestionLabel \o IntToStr(i - 1) \o ColonSpace
                     \o probing_questions[i])]

\* f"Question {i+1}: {q}" for i, q in enumerate(probing_questions)
QuestionMessages(probing_questions) ==
    [i \in 1..Len(probing_questions) |->
        HumanMessage(QuestionLabel \o IntToStr(i) \o ColonSpace
                     \o probing_questions[i])]

\* the fixed instruction message of start_node
SystemMessage == HumanMessage(InstructionText)

\* "\n".join(f"{msg.type}: {msg.content}" for msg in messages)
RECURSIVE ConversationHistory(_)
ConversationHistory(messages) ==
    IF Len(messages) = 0 THEN <<>>
    ELSE LET line == messages[1].type \o ColonSpace \o messages[1].content
         IN  IF Len(messages) = 1 THEN line
             ELSE line \o NewLine \o ConversationHistory(Tail(messages))

\* the update start_node returns once question_generator has answered
StartNodeUpdate(probing_questions) ==
    [messages |-> QuestionMessages(probing_questions) \o <<SystemMessage>>,
     turn |-> 1]

\* the update report_node returns once report_generator has answered
ReportNodeUpdate(report_text) ==
    [messages |-> <<HumanMessage(report_text)>>]

\* input building that tests user_answers.strip() instead of user_answers
RunAgentInputsStripped(query, answers) ==
    IF \A i \in 1..Len(answers) : answers[i] = " "
    THEN [messages |-> <<HumanMessage(query)>>, turn |-> 0]
    ELSE [messages |-> <<HumanMessage(InitialQueryLabel \o query
                                      \o UserAnswersLabel \o answers)>>,
          turn |-> 2]

\* the graph input run_agent builds from its two arguments
RunAgentInputs(query, answers) ==
    IF Len(answers) = 0
    THEN [messages |-> <<HumanMessage(query)>>, turn |-> 0]
    ELSE [messages |-> <<HumanMessage(InitialQueryLabel \o query
                                      \o UserAnswersLabel \o answers)>>,
          turn |-> 2]

\* a graph whose last edge leads back to the entry node instead of END
NextNodeLoop(node) ==
    CASE node = "START" -> "start_interview"
      [] node = "start_interview" -> "generate_report"
      [] node = "generate_report" -> "start_interview"

\* the edges of the compiled graph: entry point, start_interview ->
\* generate_report, generate_report -> END
NextNode(node) ==
    CASE node = "START" -> "start_interview"
      [] node = "start_interview" -> "generate_report"
      [] node = "generate_report" -> "END"

\* legal_agent = workflow.compile(): the successor of every node
CompiledGraph ==
    [node \in {"START", "start_interview", "generate_report"} |->
        NextNode(node)]

\* what a generator's invoke did: it returned a payload, or it raised
Returned(value) == [ok |-> TRUE, value |-> value]

Raised == [ok |-> FALSE, value |-> <<>>]

\* no generation took place
NoGeneration == [questions |-> Raised, report |-> Raised]

\* what the generation service may do during one invocation, the question
\* lists drawn from questionSets and the reports from reportTexts; report
\* generation is not reached when question generation raises
GenOutcomes(questionSets, reportTexts) ==
    { [questions |-> Returned(qs), report |-> r] :
          qs \in questionSets,
          r \in { Returned(t) : t \in reportTexts } \cup {Raised} }
    \cup {NoGeneration}

\* legal_agent.invoke from the given node on: each node calls its generator
\* and its update is merged into the state; a raise ends the run
RECURSIVE GraphRun(_, _, _)
GraphRun(node, st, gen) ==
    CASE node = "END" -> [ok |-> TRUE, state |-> st]
      [] node = "start_interview" ->
            IF gen.questions.ok
            THEN LET update == StartNodeUpdate(gen.questions.value)
                 IN  GraphRun(NextNode(node),
                              [messages |-> Reducer(st.messages,
                                                    update.messages),
                               turn |-> update.turn],
                              gen)
            ELSE [ok |-> FALSE, state |-> st]
      [] node = "generate_report" ->
            IF gen.report.ok
            THEN LET update == ReportNodeUpdate(gen.report.value)
                 IN  GraphRun(NextNode(node),
                              [messages |-> Reducer(st.messages,
                                                    update.messages),
                               turn |-> st.turn],
                              gen)
            ELSE [ok |-> FALSE, state |-> st]

\* run_agent as its callers see it: the returned messages, or a raise
RunAgent(query, answers, gen) ==
    LET graph_inputs == RunAgentInputs(query, answers)
        run == GraphRun(NextNode("START"),
                        [messages |-> Reducer(<<>>, graph_inputs.messages),
                         turn |-> graph_inputs.turn],
                        gen)
    IN  [ok |-> run.ok,
         messages |-> IF run.ok THEN run.state.messages ELSE <<>>]

\* ------------------------------------------------------------------- state
VARIABLES
    pc,             \* where the current invocation of run_agent stands
    initial_query,  \* run_agent's first argument
    user_answers,   \* run_agent's second argument ("" when omitted)
    inputs,         \* the graph input run_agent built
    state,          \* the InterviewState of the running graph
    nodeLog,        \* nodes the graph has entered in this invocation
    genLog,         \* generation calls issued in this invocation
    updates,        \* the update each node that returned handed back
    questions,      \* questions_structured.probing_questions
    report,         \* report_structured.report_text
    result          \* the sequence run_agent returned

\* the variables of one step-by-step invocation of run_agent
toolVars == <<pc, initial_query, user_answers, inputs, state, nodeLog, genLog,
              updates, questions, report, result>>

\* the HTTP layer (api.py): the last request handled and its outcome
VARIABLES
    apiRequest,     \* the endpoint called and the raw body fields
    apiArgs,        \* what the handler passed to run_agent, if it got there
    apiGen,         \* what the generation service did during that request
    apiResponse     \* the HTTP status and payload answered

apiVars == <<apiRequest, apiArgs, apiGen, apiResponse>>

\* the Streamlit UI (app.py): st.session_state and the last run_agent call
VARIABLES
    ss_step,            \* st.session_state.step
    ss_messages,        \* st.session_state.messages, the chat history
    ss_initial_query,   \* st.session_state.initial_query
    ss_final_report,    \* st.session_state.final_report
    uiCall,             \* the last run_agent call the UI made
    uiCalls             \* how many run_agent calls the UI has made

uiVars == <<ss_step, ss_messages, ss_initial_query, ss_final_report, uiCall,
            uiCalls>>

\* concurrent invocations of run_agent against the one compiled graph
VARIABLES
    inv,            \* per invocation: position, arguments, responses, result
    channels,       \* per invocation: the InterviewState its graph run holds
    legal_agent     \* the module-level compiled graph

concVars == <<inv, channels, legal_agent>>

vars == <<toolVars, apiVars, uiVars, concVars>>

\* the concurrent invocations modelled
Procs == {1, 2}

\* no request handled yet
ApiInit ==
    /\ apiRequest = [endpoint |-> "none", query |-> <<>>,
                     initial_query |-> <<>>, answers |-> <<>>]
    /\ apiArgs = [called |-> FALSE, initial_query |-> <<>>,
                  user_answers |-> <<>>]
    /\ apiGen = NoGeneration
    /\ apiResponse = [status |-> 0, questions |-> <<>>, message |-> <<>>,
                      report |-> <<>>]

\* the session state a first script run sets up
UiInit ==
    /\ ss_step = "initial_query"
    /\ ss_messages = <<>>
    /\ ss_initial_query = <<>>
    /\ ss_final_report = <<>>
    /\ uiCall = [initial_query |-> <<>>, user_answers |-> <<>>,
                 gen |-> NoGeneration, returned |-> FALSE]
    /\ uiCalls = 0

\* no invocation under way; the graph compiled at module load
ConcInit ==
    /\ inv = [p \in Procs |->
                 [pc |-> "idle", initial_query |-> <<>>,
                  user_answers |-> <<>>, questions |-> <<>>,
                  report |-> <<>>, result |-> <<>>]]
    /\ channels = [p \in Procs |-> [messages |-> <<>>, turn |-> 0]]
    /\ legal_agent = CompiledGraph

\* the state after module load: client and graph built, nothing invoked
Init ==
    /\ pc = "idle"
    /\ initial_query = <<>>
    /\ user_answers = <<>>
    /\ inputs = [messages |-> <<>>, turn |-> 0]
    /\ state = [messages |-> <<>>, turn |-> 0]
    /\ nodeLog = <<>>
    /\ genLog = <<>>
    /\ updates = <<>>
    /\ questions = <<>>
    /\ report = <<>>
    /\ result = <<>>
    /\ ApiInit
    /\ UiInit
    /\ ConcInit

\* a generation call as the service sees it
GenCall(generator, prompt, ok) ==
    [generator |-> generator, prompt |-> prompt, ok |-> ok]

\* run_agent is called: it builds the input and legal_agent.invoke writes
\* it to the channels of a fresh InterviewState through the reducer
RunAgentCall(query, answers) ==
    /\ pc \in {"idle", "returned", "raised"}
    /\ initial_query' = query
    /\ user_answers' = answers
    /\ inputs' = RunAgentInputs(query, answers)
    /\ state' = [messages |-> Reducer(<<>>, inputs'.messages),
                 turn |-> inputs'.turn]
    /\ nodeLog' = <<>>
    /\ genLog' = <<>>
    /\ updates' = <<>>
    /\ questions' = <<>>
    /\ report' = <<>>
    /\ result' = <<>>
    /\ pc' = NextNode("START")
    /\ UNCHANGED <<apiVars, uiVars, concVars>>

\* start_node runs and question_generator.invoke returns probing_questions
StartNodeReturn(probing_questions) ==
    /\ pc = "start_interview"
    /\ LET prompt == state.messages[Len(state.messages)].content
           update == StartNodeUpdate(probing_questions)
       IN  /\ genLog' = Append(genLog,
                               GenCall("question_generator", prompt, TRUE))
           /\ updates' = Append(updates, update)
           /\ state' = [messages |-> Reducer(state.messages, update.messages),
                        turn |-> update.turn]
    /\ nodeLog' = Append(nodeLog, "start_interview")
    /\ questions' = probing_questions
    /\ pc' = NextNode("start_interview")
    /\ UNCHANGED <<initial_query, user_answers, inputs, report, result>>
    /\ UNCHANGED <<apiVars, uiVars, concVars>>

\* a start_node that swallows the error and lets the graph go on
StartNodeRaiseFallback ==
    /\ pc = "start_interview"
    /\ genLog' = Append(genLog,
                        GenCall("question_generator",
                                state.messages[Len(state.messages)].content,
                                FALSE))
    /\ nodeLog' = Append(nodeLog, "start_interview")
    /\ pc' = NextNode("start_interview")
    /\ UNCHANGED <<initial_query, user_answers, inputs, state, updates,
                   questions, report, result>>
    /\ UNCHANGED <<apiVars, uiVars, concVars>>

\* start_node runs and question_generator.invoke raises: nothing catches
\* it in start_node, in the graph or in run_agent
StartNodeRaise ==
    /\ pc = "start_interview"
    /\ genLog' = Append(genLog,
                        GenCall("question_generator",
                                state.messages[Len(state.messages)].content,
                                FALSE))
    /\ nodeLog' = Append(nodeLog, "start_interview")
    /\ pc' = "raised"
    /\ UNCHANGED <<initial_query, user_answers, inputs, state, updates,
                   questions, report, result>>
    /\ UNCHANGED <<apiVars, uiVars, concVars>>

\* report_node runs and report_generator.invoke returns report_text
ReportNodeReturn(report_text) ==
    /\ pc = "generate_report"
    /\ LET prompt == ConversationHistory(state.messages)
           update == ReportNodeUpdate(report_text)
       IN  /\ genLog' = Append(genLog,
                               GenCall("report_generator", prompt, TRUE))
           /\ updates' = Append(updates, update)
           /\ state' = [messages |-> Reducer(state.messages, update.messages),
                        turn |-> state.turn]
    /\ nodeLog' = Append(nodeLog, "generate_report")
    /\ report' = report_text
    /\ pc' = NextNode("generate_report")
    /\ UNCHANGED <<initial_query, user_answers, inputs, questions, result>>
    /\ UNCHANGED <<apiVars, uiVars, concVars>>

\* report_node runs and report_generator.invoke raises
ReportNodeRaise ==
    /\ pc = "generate_report"
    /\ genLog' = Append(genLog,
                        GenCall("report_generator",
                                ConversationHistory(state.messages), FALSE))
    /\ nodeLog' = Append(nodeLog, "generate_report")
    /\ pc' = "raised"
    /\ UNCHANGED <<initial_query, user_answers, inputs, state, updates,
                   questions, report, result>>
    /\ UNCHANGED <<apiVars, uiVars, concVars>>

\* the graph reached END: run_agent returns result['messages']
RunAgentReturn ==
    /\ pc = "END"
    /\ result' = state.messages
    /\ pc' = "returned"
    /\ UNCHANGED <<initial_query, user_answers, inputs, state, nodeLog,
                   genLog, updates, questions, report>>
    /\ UNCHANGED <<apiVars, uiVars, concVars>>

Next ==
    \/ \E query \in Queries, answers \in Answers : RunAgentCall(query, answers)
    \/ \E probing_questions \in QuestionSets : StartNodeReturn(probing_questions)
    \/ StartNodeRaise
    \/ \E report_text \in ReportTexts : ReportNodeReturn(report_text)
    \/ ReportNodeRaise
    \/ RunAgentReturn

Spec == Init /\ [][Next]_vars

\* the steps an invocation under way takes by itself: the calls are
\* synchronous and blocking, and every generation call returns or raises
InvocationStep ==
    \/ \E probing_questions \in QuestionSets : StartNodeReturn(probing_questions)
    \/ StartNodeRaise
    \/ \E report_text \in ReportTexts : ReportNodeReturn(report_text)
    \/ ReportNodeRaise
    \/ RunAgentReturn

\* Spec with an invocation under way always carried on
FairSpec == Spec /\ WF_vars(InvocationStep)

\* ------------------------------------------------- concurrent invocations
\* Largest number of probing questions returned in the concurrent runs
MaxConcQuestions == 1

\* initial_query and user_answers texts of the concurrent callers
ConcQueries == { <<"r","e","n","t","?">>, <<"b","a","i","l">> }

ConcAnswers == { <<>>, <<"P","u","n","e">> }

ConcQuestionSets ==
    UNION { [1..n -> QuestionTexts] : n \in 0..MaxConcQuestions }

\* all invocations writing to one InterviewState, as module-level state would
ChannelShared(p) == 1

\* the InterviewState an invocation works on: legal_agent.invoke builds the
\* channels of each call from that call's input
ChannelOf(p) == p

\* invocation p: run_agent is called and the graph run starts on its input
ConcRunAgentCall(p, query, answers) ==
    /\ inv[p].pc \in {"idle", "returned", "raised"}
    /\ LET graph_inputs == RunAgentInputs(query, answers)
       IN  channels' = [channels EXCEPT ![ChannelOf(p)] =
                           [messages |-> Reducer(<<>>, graph_inputs.messages),
                            turn |-> graph_inputs.turn]]
    /\ inv' = [inv EXCEPT ![p] =
                  [pc |-> legal_agent["START"], initial_query |-> query,
                   user_answers |-> answers, questions |-> <<>>,
                   report |-> <<>>, result |-> <<>>]]
    /\ UNCHANGED <<legal_agent, toolVars, apiVars, uiVars>>

\* invocation p: start_node runs, question_generator returns
ConcStartNodeReturn(p, probing_questions) ==
    /\ inv[p].pc = "start_interview"
    /\ LET update == StartNodeUpdate(probing_questions)
           st == channels[ChannelOf(p)]
       IN  channels' = [channels EXCEPT ![ChannelOf(p)] =
                           [messages |-> Reducer(st.messages, update.messages),
                            turn |-> update.turn]]
    /\ inv' = [inv EXCEPT ![p].pc = legal_agent["start_interview"],
                          ![p].questions = probing_questions]
    /\ UNCHANGED <<legal_agent, toolVars, apiVars, uiVars>>

\* invocation p: start_node runs, question_generator raises
ConcStartNodeRaise(p) ==
    /\ inv[p].pc = "start_interview"
    /\ inv' = [inv EXCEPT ![p].pc = "raised"]
    /\ UNCHANGED <<channels, legal_agent, toolVars, apiVars, uiVars>>

\* invocation p: report_node runs, report_generator returns
ConcReportNodeReturn(p, report_text) ==
    /\ inv[p].pc = "generate_report"
    /\ LET update == ReportNodeUpdate(report_text)
           st == channels[ChannelOf(p)]
       IN  channels' = [channels EXCEPT ![ChannelOf(p)] =
                           [messages |-> Reducer(st.messages, update.messages),
                            turn |-> st.turn]]
    /\ inv' = [inv EXCEPT ![p].pc = legal_agent["generate_report"],
                          ![p].report = report_text]
    /\ UNCHANGED <<legal_agent, toolVars, apiVars, uiVars>>

\* invocation p: report_node runs, report_generator raises
ConcReportNodeRaise(p) ==
    /\ inv[p].pc = "generate_report"
    /\ inv' = [inv EXCEPT ![p].pc = "raised"]
    /\ UNCHANGED <<channels, legal_agent, toolVars, apiVars, uiVars>>

\* invocation p: the graph reached END, run_agent returns result['messages']
ConcRunAgentReturn(p) ==
    /\ inv[p].pc = "END"
    /\ inv' = [inv EXCEPT ![p].pc = "returned",
                          ![p].result = channels[ChannelOf(p)].messages]
    /\ UNCHANGED <<channels, legal_agent, toolVars, apiVars, uiVars>>

ConcNext ==
    \/ \E p \in Procs, query \in ConcQueries, answers \in ConcAnswers :
           ConcRunAgentCall(p, query, answers)
    \/ \E p \in Procs, probing_questions \in ConcQuestionSets :
           ConcStartNodeReturn(p, probing_questions)
    \/ \E p \in Procs : ConcStartNodeRaise(p)
    \/ \E p \in Procs, report_text \in ReportTexts :
           ConcReportNodeReturn(p, report_text)
    \/ \E p \in Procs : ConcReportNodeRaise(p)
    \/ \E p \in Procs : ConcRunAgentReturn(p)

\* every interleaving of the steps of the concurrent invocations
ConcSpec == Init /\ [][ConcNext]_vars

\* ------------------------------------------------------ text operations
\* the characters str.strip() removes
Whitespace == {" ", "\n", "\t", "\r"}

RECURSIVE LStrip(_)
LStrip(text) ==
    IF Len(text) > 0 /\ text[1] \in Whitespace THEN LStrip(Tail(text))
    ELSE text

RECURSIVE RStrip(_)
RStrip(text) ==
    IF Len(text) > 0 /\ text[Len(text)] \in Whitespace
    THEN RStrip(SubSeq(text, 1, Len(text) - 1))
    ELSE text

\* str.strip()
Strip(text) == RStrip(LStrip(text))

\* str.startswith(prefix)
StartsWith(text, prefix) ==
    /\ Len(text) >= Len(prefix)
    /\ SubSeq(text, 1, Len(prefix)) = prefix

\* str.find(needle) counted from 1; 0 when needle does not occur
Find(text, needle) ==
    LET hits == { i \in 1..(Len(text) - Len(needle) + 1) :
                      SubSeq(text, i, i + Len(needle) - 1) = needle }
    IN  IF hits = {} THEN 0
        ELSE CHOOSE i \in hits : \A j \in hits : i <= j

\* text.split(sep, 1)[1]: what follows the first occurrence of sep
AfterFirst(text, sep) ==
    SubSeq(text, Find(text, sep) + Len(sep), Len(text))

\* --------------------------------------------------------- HTTP layer
QuestionWord == <<"Q","u","e","s","t","i","o","n">>

PleaseAnswerWords == <<
    "P","l","e","a","s","e"," ","a","n","s","w","e","r"," ","t","h","e"," ",
    "q","u","e","s","t","i","o","n","s" >>

\* Field(min_length=10) of LegalQuery.query and of both UserAnswers fields
MinLength == 10

\* Field(max_length=5000) of LegalQuery.query and UserAnswers.initial_query
QueryMaxLength == 5000

\* Field(max_length=10000) of UserAnswers.answers
AnswersMaxLength == 10000

\* generate_legal_report takes the first message longer than this
SubstantialLength == 100

\* request texts: absent, too short, ten blanks, two letters padded to ten
\* characters, a plain query, a query that begins with "Question", and a
\* query long enough to make the combined context substantial
BlankText == <<" "," "," "," "," "," "," "," "," "," ">>

PaddedText == <<"h","i"," "," "," "," "," "," "," "," ">>

ShortText == <<"r","e","n","t","?">>

PlainText == <<"I","s"," ","r","e","n","t"," ","d","u","e","?">>

QuestionLikeText == <<
    "Q","u","e","s","t","i","o","n",":"," ","r","e","n","t"," ","d","u","e",
    "?" >>

LongText == PlainText \o [i \in 1..SubstantialLength |-> "x"]

ApiTexts == { <<>>, ShortText, BlankText, PaddedText, PlainText,
              QuestionLikeText, LongText }

\* the answers texts sent to POST /generate-report
ApiAnswerTexts == { <<>>, PaddedText, PlainText }

\* a report long enough to count as substantial
LongReport == [i \in 1..(SubstantialLength + 1) |-> "s"]

ApiReportTexts == ReportTexts \cup {LongReport}

\* Largest number of probing questions returned during a request
MaxApiQuestions == 2

ApiQuestionSets ==
    UNION { [1..n -> QuestionTexts] : n \in 0..MaxApiQuestions }

ApiGenOutcomes == GenOutcomes(ApiQuestionSets, ApiReportTexts)

\* a str field of a request model: the Field length limits are checked on
\* the text as sent, then the validator rejects blank text and strips
ValidateField(text, max_length) ==
    IF Len(text) < MinLength \/ Len(text) > max_length
    THEN [ok |-> FALSE, value |-> <<>>]
    ELSE IF Strip(text) = <<>>
         THEN [ok |-> FALSE, value |-> <<>>]
         ELSE [ok |-> TRUE, value |-> Strip(text)]

\* the questions list ask_legal_question builds from the messages
RECURSIVE ExtractQuestions(_)
ExtractQuestions(msgs) ==
    IF Len(msgs) = 0 THEN <<>>
    ELSE LET content == msgs[1].content
         IN  (IF StartsWith(content, QuestionWord)
              THEN << IF Contains(content, ColonSpace)
                      THEN AfterFirst(content, ColonSpace)
                      ELSE content >>
              ELSE <<>>)
             \o ExtractQuestions(Tail(msgs))

\* the instructions ask_legal_question keeps: the last message that is not
\* taken as a question and contains "Please answer the questions"
RECURSIVE ExtractInstructions(_)
ExtractInstructions(msgs) ==
    IF Len(msgs) = 0 THEN <<>>
    ELSE LET content == msgs[Len(msgs)].content
         IN  IF /\ ~StartsWith(content, QuestionWord)
                /\ Contains(content, PleaseAnswerWords)
             THEN content
             ELSE ExtractInstructions(SubSeq(msgs, 1, Len(msgs) - 1))

\* the report generate_legal_report picks: the first substantial message
RECURSIVE ExtractReport(_)
ExtractReport(msgs) ==
    IF Len(msgs) = 0 THEN <<>>
    ELSE IF Len(msgs[1].content) > SubstantialLength THEN msgs[1].content
         ELSE ExtractReport(Tail(msgs))

\* the answers of the HTTP layer
ApiFailure(status) ==
    [status |-> status, questions |-> <<>>, message |-> <<>>,
     report |-> <<>>]

QuestionResponse(questions_, message) ==
    [status |-> 200, questions |-> questions_, message |-> message,
     report |-> <<>>]

ReportResponse(report_) ==
    [status |-> 200, questions |-> <<>>, message |-> <<>>,
     report |-> report_]

\* an ask_legal_question that answers whatever list it extracted
AskResponseUnchecked(run) ==
    IF ~run.ok THEN ApiFailure(500)
    ELSE LET instructions == ExtractInstructions(run.messages)
         IN  QuestionResponse(ExtractQuestions(run.messages),
                              IF instructions # <<>> THEN instructions
                              ELSE InstructionText)

\* the body of ask_legal_question once run_agent returned or raised: any
\* exception, the HTTPException for an empty list included, becomes a 500
AskResponse(run) ==
    IF ~run.ok THEN ApiFailure(500)
    ELSE LET questions_ == ExtractQuestions(run.messages)
             instructions == ExtractInstructions(run.messages)
         IN  IF questions_ = <<>> THEN ApiFailure(500)
             ELSE QuestionResponse(questions_,
                                   IF instructions # <<>> THEN instructions
                                   ELSE InstructionText)

\* the body of generate_legal_report once run_agent returned or raised
GenerateResponse(run) ==
    IF ~run.ok THEN ApiFailure(500)
    ELSE LET report_content == ExtractReport(run.messages)
         IN  IF report_content = <<>> THEN ApiFailure(500)
             ELSE ReportResponse(report_content)

\* POST /ask-question with the given body text, the generation service
\* behaving as gen; a body that fails validation is answered 422 unhandled
AskLegalQuestion(text, gen) ==
    LET query == ValidateField(text, QueryMaxLength)
    IN  /\ apiRequest' = [endpoint |-> "ask-question", query |-> text,
                          initial_query |-> <<>>, answers |-> <<>>]
        /\ IF ~query.ok
           THEN /\ apiArgs' = [called |-> FALSE, initial_query |-> <<>>,
                               user_answers |-> <<>>]
                /\ apiGen' = NoGeneration
                /\ apiResponse' = ApiFailure(422)
           ELSE /\ apiArgs' = [called |-> TRUE, initial_query |-> query.value,
                               user_answers |-> <<>>]
                /\ apiGen' = gen
                /\ apiResponse' = AskResponse(RunAgent(query.value, <<>>, gen))
        /\ UNCHANGED <<toolVars, uiVars, concVars>>

\* POST /generate-report with the given body texts
GenerateLegalReport(query_text, answers_text, gen) ==
    LET query == ValidateField(query_text, QueryMaxLength)
        answers == ValidateField(answers_text, AnswersMaxLength)
    IN  /\ apiRequest' = [endpoint |-> "generate-report", query |-> <<>>,
                          initial_query |-> query_text,
                          answers |-> answers_text]
        /\ IF ~query.ok \/ ~answers.ok
           THEN /\ apiArgs' = [called |-> FALSE, initial_query |-> <<>>,
                               user_answers |-> <<>>]
                /\ apiGen' = NoGeneration
                /\ apiResponse' = ApiFailure(422)
           ELSE /\ apiArgs' = [called |-> TRUE, initial_query |-> query.value,
                               user_answers |-> answers.value]
                /\ apiGen' = gen
                /\ apiResponse' =
                       GenerateResponse(RunAgent(query.value, answers.value,
                                                 gen))
        /\ UNCHANGED <<toolVars, uiVars, concVars>>

ApiNext ==
    \/ \E text \in ApiTexts, gen \in ApiGenOutcomes :
           AskLegalQuestion(text, gen)
    \/ \E query_text \in ApiTexts, answers_text \in ApiAnswerTexts,
          gen \in ApiGenOutcomes :
           GenerateLegalReport(query_text, answers_text, gen)

\* the requests the HTTP layer handles, one after the other
ApiSpec == Init /\ [][ApiNext]_vars

\* ------------------------------------------------------------ Streamlit UI
\* Largest number of run_agent calls in the session modelled
MaxUiCalls == 3

\* Largest number of probing questions returned to the UI
MaxUiQuestions == 2

QuestionsHeader == <<
    "T","o"," ","p","r","o","v","i","d","e"," ","y","o","u"," ","w","i","t",
    "h"," ","t","h","e"," ","b","e","s","t"," ","a","d","v","i","c","e",",",
    " ","I"," ","n","e","e","d"," ","a"," ","b","i","t"," ","m","o","r","e",
    " ","i","n","f","o","r","m","a","t","i","o","n","."," ","P","l","e","a",
    "s","e"," ","a","n","s","w","e","r"," ","t","h","e"," ","f","o","l","l",
    "o","w","i","n","g"," ","q","u","e","s","t","i","o","n","s",":","\n" >>

ReportHeader == <<
    "#","#","#"," ","Y","o","u","r"," ","L","e","g","a","l"," ","R","e","p",
    "o","r","t","\n" >>

BulletMark == <<"-"," ">>

\* the prefixes the UI removes from a message, in this order
QuestionPrefixes == <<
    <<"Q","u","e","s","t","i","o","n"," ","1",":"," ">>,
    <<"Q","u","e","s","t","i","o","n"," ","2",":"," ">>,
    <<"Q","u","e","s","t","i","o","n"," ","3",":"," ">>,
    <<"Q","u","e","s","t","i","o","n"," ","4",":"," ">> >>

\* what the user may type in the chat input and in the answers area
UiQueries == { <<"r","e","n","t","?">>, <<"b","a","i","l">> }

UiAnswers == { <<>>, <<" ">>, <<"P","u","n","e">> }

UiQuestionSets ==
    UNION { [1..n -> QuestionTexts] : n \in 0..MaxUiQuestions }

UiGenOutcomes == GenOutcomes(UiQuestionSets, ReportTexts)

\* text.replace(old, ''): every occurrence of old removed, left to right
RECURSIVE Remove(_, _)
Remove(text, old) ==
    IF Len(text) < Len(old) THEN text
    ELSE IF SubSeq(text, 1, Len(old)) = old
         THEN Remove(SubSeq(text, Len(old) + 1, Len(text)), old)
         ELSE <<text[1]>> \o Remove(Tail(text), old)

\* the chain of four replace calls on a message's content
RemoveQuestionPrefixes(content) ==
    Remove(Remove(Remove(Remove(content, QuestionPrefixes[1]),
                         QuestionPrefixes[2]),
                  QuestionPrefixes[3]),
           QuestionPrefixes[4])

\* full_response: one bullet line per message that does not contain
\* "Please answer the questions"
RECURSIVE FullResponse(_)
FullResponse(response_messages) ==
    IF Len(response_messages) = 0 THEN <<>>
    ELSE LET content == response_messages[1].content
         IN  (IF ~Contains(content, PleaseAnswerWords)
              THEN BulletMark \o RemoveQuestionPrefixes(content) \o NewLine
              ELSE <<>>)
             \o FullResponse(Tail(response_messages))

\* an entry of the chat history
ChatMessage(role, content) == [role |-> role, content |-> content]

\* a test for missing answers that does not strip
AnswersMissingUnstripped(answers) == Len(answers) = 0

\* `not user_answers.strip()`: the answers area holds nothing but blanks
AnswersMissing(answers) == Len(Strip(answers)) = 0

\* the first message instead of the last
PickReportFirst(report_messages) == report_messages[1].content

\* final_report = report_messages[-1].content
PickReport(report_messages) ==
    report_messages[Len(report_messages)].content

\* step initial_query: the user submits a query in the chat input; an
\* exception out of run_agent ends the script run where it stands
SubmitQuery(user_query, gen) ==
    /\ ss_step = "initial_query"
    /\ Len(user_query) > 0
    /\ uiCalls < MaxUiCalls
    /\ LET run == RunAgent(user_query, <<>>, gen)
       IN  /\ uiCall' = [initial_query |-> user_query, user_answers |-> <<>>,
                         gen |-> gen, returned |-> run.ok]
           /\ IF run.ok
              THEN /\ ss_messages' =
                          ss_messages
                          \o << ChatMessage("user", user_query),
                                ChatMessage("assistant",
                                            QuestionsHeader
                                            \o FullResponse(run.messages)) >>
                   /\ ss_step' = "awaiting_answers"
              ELSE /\ ss_messages' =
                          Append(ss_messages, ChatMessage("user", user_query))
                   /\ ss_step' = ss_step
    /\ ss_initial_query' = user_query
    /\ uiCalls' = uiCalls + 1
    /\ UNCHANGED <<ss_final_report, toolVars, apiVars, concVars>>

\* step awaiting_answers: the user clicks "Generate Report"
GenerateReport(answers, gen) ==
    /\ ss_step = "awaiting_answers"
    /\ uiCalls < MaxUiCalls
    /\ IF AnswersMissing(answers)
       THEN UNCHANGED uiVars
       ELSE LET run == RunAgent(ss_initial_query, answers, gen)
            IN  /\ uiCall' = [initial_query |-> ss_initial_query,
                              user_answers |-> answers, gen |-> gen,
                              returned |-> run.ok]
                /\ uiCalls' = uiCalls + 1
                /\ UNCHANGED ss_initial_query
                /\ IF run.ok
                   THEN /\ ss_final_report' = PickReport(run.messages)
                        /\ ss_messages' =
                               ss_messages
                               \o << ChatMessage("user", answers),
                                     ChatMessage("assistant",
                                                 ReportHeader
                                                 \o PickReport(run.messages)) >>
                        /\ ss_step' = "report_generated"
                   ELSE /\ ss_messages' =
                               Append(ss_messages, ChatMessage("user", answers))
                        /\ UNCHANGED <<ss_final_report, ss_step>>
    /\ UNCHANGED <<toolVars, apiVars, concVars>>

\* step report_generated: the user clicks "Start New Consultation"
StartNewConsultation ==
    /\ ss_step = "report_generated"
    /\ ss_messages' = <<>>
    /\ ss_step' = "initial_query"
    /\ ss_initial_query' = <<>>
    /\ ss_final_report' = <<>>
    /\ UNCHANGED <<uiCall, uiCalls, toolVars, apiVars, concVars>>

UiNext ==
    \/ \E user_query \in UiQueries, gen \in UiGenOutcomes :
           SubmitQuery(user_query, gen)
    \/ \E answers \in UiAnswers, gen \in UiGenOutcomes :
           GenerateReport(answers, gen)
    \/ StartNewConsultation

\* one browser session of the UI
UiSpec == Init /\ [][UiNext]_vars

\* ------------------------------------------------------------ type invariant
TypeOK ==
    /\ pc \in {"idle", "start_interview", "generate_report", "END",
               "returned", "raised"}
    /\ initial_query \in Queries
    /\ user_answers \in Answers
    /\ state.turn \in {0, 1, 2}
    /\ Len(nodeLog) <= 2
    /\ Len(genLog) = Len(nodeLog)
    /\ Len(updates) <= Len(nodeLog)
    /\ questions \in QuestionSets
    /\ report \in ReportTexts \cup {<<>>}

\* ------------------------------------------------------------------ claims
\* the invocation is on the clarify path: user_answers was empty
ClarifyPath == pc # "idle" /\ Len(user_answers) = 0

\* the invocation is on the report path: user_answers was supplied
ReportPath == pc # "idle" /\ Len(user_answers) > 0

\* the phrase of the instruction message
PleaseAnswerPhrase == <<
    "P","l","e","a","s","e"," ","a","n","s","w","e","r"," ","t","h","e"," ",
    "q","u","e","s","t","i","o","n","s"," ","a","b","o","v","e" >>

\* C1: for a non-empty initial_query and empty user_answers, the sequence
\* run_agent returns has exactly N + 1 messages, N being the number of
\* probing questions the question generator returned in that invocation.
C1_ClarifyReturnsQuestionsPlusOne ==
    (pc = "returned" /\ ClarifyPath /\ Len(initial_query) > 0)
        => Len(result) = Len(questions) + 1

\* C2: for a non-empty initial_query and non-empty user_answers, run_agent
\* returns exactly one message, whose content is the report text the report
\* generator returned.
C2_ReportReturnsOneMessage ==
    (pc = "returned" /\ ReportPath /\ Len(initial_query) > 0)
        => /\ Len(result) = 1
           /\ result[1].content = report

\* C3: a call of run_agent that returns has issued exactly one generation
\* call: one invoke of question_generator or of report_generator, never both.
C3_OneGenerationCall ==
    pc = "returned" => Len(genLog) = 1

\* C4: an invocation with empty user_answers never executes report_node, an
\* invocation with non-empty user_answers never executes start_node, and an
\* invocation that returns has run exactly one node.
C4_OneNodePerInvocation ==
    /\ ClarifyPath =>
           \A i \in 1..Len(nodeLog) : nodeLog[i] # "generate_report"
    /\ ReportPath =>
           \A i \in 1..Len(nodeLog) : nodeLog[i] # "start_interview"
    /\ pc = "returned" => Len(nodeLog) = 1

\* C5: on the clarify path the last message of the sequence run_agent
\* returns is the instruction message ("Please answer the questions above").
C5_ClarifyEndsWithInstruction ==
    (pc = "returned" /\ ClarifyPath)
        => Contains(result[Len(result)].content, PleaseAnswerPhrase)

\* C6: once a generation call has failed, the invocation has ended with that
\* error: the failed call is the last generation call of the invocation
\* (no retry, no fallback) and no message sequence has been returned.
C6_FailureEndsInvocation ==
    \A i \in 1..Len(genLog) :
        ~genLog[i].ok =>
            /\ i = Len(genLog)
            /\ pc = "raised"
            /\ result = <<>>

\* C6 witness: the report generator failed after the question generator had
\* answered, so a partial message list existed and was not returned.
C6_Witness ==
    /\ pc = "raised"
    /\ Len(genLog) = 2
    /\ genLog[1].ok
    /\ ~genLog[2].ok
    /\ Len(state.messages) > 1

\* C7: run_agent builds the clarify input (one message holding initial_query,
\* turn 0) exactly when user_answers is the empty string; for every other
\* user_answers, whitespace-only included, it builds the report input: one
\* message "Initial Query: {initial_query}\n\nUser's Answers:\n{user_answers}"
\* with turn 2.
C7_InputChosenByEmptyAnswers ==
    pc # "idle" =>
        /\ (user_answers = <<>>) <=>
               (inputs = [messages |->
                              <<[type |-> HumanType,
                                 content |-> initial_query]>>,
                          turn |-> 0])
        /\ (user_answers # <<>>) =>
               (inputs = [messages |->
                              <<[type |-> HumanType,
                                 content |-> InitialQueryLabel
                                             \o initial_query
                                             \o <<"\n", "\n">>
                                             \o <<"U","s","e","r","'","s"," ",
                                                  "A","n","s","w","e","r","s",
                                                  ":">>
                                             \o <<"\n">>
                                             \o user_answers]>>,
                          turn |-> 2])

\* C7 witness: run_agent was called with whitespace-only answers and built
\* the report input.
C7_Witness ==
    /\ pc = "start_interview"
    /\ user_answers = <<" ">>
    /\ inputs.turn = 2

\* C8 (as stated): on the clarify call the message list after the Clarify
\* node, and so the sequence run_agent returns, does not contain the original
\* query message: the node's output replaces the input.
C8_QueryMessageReplaced ==
    (ClarifyPath /\ Len(updates) >= 1) =>
        /\ \A i \in 1..Len(state.messages) :
               state.messages[i] # inputs.messages[1]
        /\ pc = "returned" =>
               \A i \in 1..Len(result) : result[i] # inputs.messages[1]

\* C8 (amended): on the clarify call the message list after the Clarify
\* node, and so the sequence run_agent returns, begins with the original
\* query message, followed by the node's output: the output is appended to
\* the single-message input.
C8_QueryMessageKept ==
    (ClarifyPath /\ Len(updates) >= 1) =>
        /\ state.messages[1].content = initial_query
        /\ SubSeq(state.messages, 2, 1 + Len(updates[1].messages))
               = updates[1].messages
        /\ pc = "returned" => result[1].content = initial_query

\* C8 witness: a clarify call returned, with the query message in front of
\* the questions.
C8_Witness ==
    /\ pc = "returned"
    /\ Len(user_answers) = 0
    /\ Len(initial_query) > 0
    /\ Len(questions) >= 1
    /\ result[1] = inputs.messages[1]

\* C9: within one invocation messages is append-only: every node step leaves
\* the messages it found, in order, followed by the node's output messages.
C9_MessagesAppendOnly ==
    [][ Len(updates') = Len(updates) + 1 =>
            state'.messages
                = state.messages \o updates'[Len(updates')].messages ]_vars

\* C9 witness: both nodes have run on top of the input message.
C9_Witness ==
    /\ Len(updates) = 2
    /\ Len(state.messages) = Len(questions) + 3
    /\ Len(questions) >= 1

\* C10: start_node's output holds one message per probing question, in the
\* order returned: the i-th has content "Question i: " followed by the i-th
\* question text; the only other message is the instruction that follows.
C10_OneMessagePerQuestion ==
    Len(updates) >= 1 =>
        LET out == updates[1].messages
        IN  /\ Len(out) = Len(questions) + 1
            /\ \A i \in 1..Len(questions) :
                   out[i].content
                       = QuestionLabel \o <<DecimalDigits[i + 1]>>
                         \o <<":", " ">> \o questions[i]

\* C10 witness: start_node returned messages for three questions that are
\* not all the same text.
C10_Witness ==
    /\ Len(updates) >= 1
    /\ Len(questions) = 3
    /\ questions[1] # questions[2]
    /\ updates[1].messages[3].content[10] = "3"

\* C11: the turn counter marks the phase in the final state: 1 when an
\* invocation with empty user_answers ends, 2 when an invocation with
\* non-empty user_answers ends.
C11_TurnMarksPhase ==
    pc = "returned" =>
        /\ ClarifyPath => state.turn = 1
        /\ ReportPath => state.turn = 2

\* the invocation has ended: run_agent returned or raised
Terminated == pc \in {"returned", "raised"}

\* C13: every invocation terminates (its generation calls return or raise),
\* and no node is entered twice in it: the Clarify node runs at most once,
\* and exactly once in an invocation that returns.
C13_TerminatesAfterOneRound ==
    /\ [](\A i, j \in 1..Len(nodeLog) : nodeLog[i] = nodeLog[j] => i = j)
    /\ [](pc = "returned" =>
              Cardinality({i \in 1..Len(nodeLog) :
                               nodeLog[i] = "start_interview"}) = 1)
    /\ (pc = "start_interview" ~> Terminated)

\* C13 witness: an invocation returned after the Clarify node ran once and
\* the Report node once.
C13_Witness ==
    /\ pc = "returned"
    /\ nodeLog = <<"start_interview", "generate_report">>
    /\ Len(questions) = 2

\* the messages invocation p can account for: its input message, the
\* messages made from its own question response, its own report message
OwnMessages(p) ==
    LET own == RunAgentInputs(inv[p].initial_query, inv[p].user_answers)
                   .messages
               \o StartNodeUpdate(inv[p].questions).messages
               \o <<HumanMessage(inv[p].report)>>
    IN  { own[i] : i \in 1..Len(own) }

\* C12: under every interleaving each invocation's state holds only messages
\* derived from its own input and its own generation responses, each
\* invocation returns what it would return run alone with the same
\* responses, and the compiled graph stays as it was at module load.
C12_InvocationsIndependent ==
    /\ legal_agent = CompiledGraph
    /\ \A p \in Procs :
           /\ inv[p].pc \in {"start_interview", "generate_report", "END",
                             "returned"} =>
                  \A i \in 1..Len(channels[p].messages) :
                      channels[p].messages[i] \in OwnMessages(p)
           /\ inv[p].pc = "returned" =>
                  inv[p].result
                      = RunAgent(inv[p].initial_query, inv[p].user_answers,
                                 [questions |-> Returned(inv[p].questions),
                                  report |-> Returned(inv[p].report)])
                            .messages

\* C12 witness: invocation 1 returned while invocation 2, called with other
\* arguments, was between its two nodes.
C12_Witness ==
    /\ inv[1].pc = "returned"
    /\ inv[2].pc = "generate_report"
    /\ inv[1].initial_query # inv[2].initial_query
    /\ inv[1].user_answers # inv[2].user_answers
    /\ inv[1].questions # inv[2].questions

\* what run_agent did in the request last handled
ApiRun == RunAgent(apiArgs.initial_query, apiArgs.user_answers, apiGen)

\* POST /ask-question was answered with a QuestionResponse
AskSucceeded ==
    apiRequest.endpoint = "ask-question" /\ apiResponse.status = 200

\* POST /generate-report was answered with a ReportResponse
GenerateSucceeded ==
    apiRequest.endpoint = "generate-report" /\ apiResponse.status = 200

\* C14: whenever POST /generate-report succeeds, the report field is the
\* report text the report generator produced for that request.
C14_ReportFieldIsReport ==
    GenerateSucceeded => apiResponse.report = apiGen.report.value

\* C15: whenever POST /ask-question succeeds, the questions field is the
\* list of probing questions the question generator returned, in order and
\* with no other entry, and the message field is the instruction text.
C15_QuestionsFieldIsQuestions ==
    AskSucceeded =>
        /\ apiResponse.questions = apiGen.questions.value
        /\ apiResponse.message = InstructionText

\* C17: the text a handler passes to run_agent as query, initial_query or
\* answers is never empty, blank or shorter than the 10-character minimum.
C17_ArgumentsMeetMinimum ==
    apiArgs.called =>
        /\ Len(apiArgs.initial_query) >= 10
        /\ apiRequest.endpoint = "generate-report" =>
               Len(apiArgs.user_answers) >= 10

\* C18: when run_agent raises inside a handler, or what it returns yields no
\* question or no report, the answer is a failure of status 500; a success
\* payload never has an empty question list or an empty report.
C18_FailuresAnswered500 ==
    apiArgs.called =>
        /\ ~ApiRun.ok => apiResponse = ApiFailure(500)
        /\ apiRequest.endpoint = "ask-question" =>
               /\ (ApiRun.ok /\ \A i \in 1..Len(ApiRun.messages) :
                       ~StartsWith(ApiRun.messages[i].content, QuestionWord))
                      => apiResponse.status = 500
               /\ apiResponse.status = 200 => apiResponse.questions # <<>>
        /\ apiRequest.endpoint = "generate-report" =>
               /\ (ApiRun.ok /\ \A i \in 1..Len(ApiRun.messages) :
                       Len(ApiRun.messages[i].content) <= 100)
                      => apiResponse.status = 500
               /\ apiResponse.status = 200 => apiResponse.report # <<>>
        /\ apiResponse.status \in {200, 500}

\* C18 witness: POST /ask-question got no question message back (the
\* generator returned an empty list) and answered 500.
C18_Witness ==
    /\ apiRequest.endpoint = "ask-question"
    /\ apiArgs.called
    /\ ApiRun.ok
    /\ apiGen.questions.value = <<>>
    /\ apiResponse.status = 500

\* the UI called run_agent in this step
UiCalled == uiCalls' = uiCalls + 1

\* C16: step changes only initial_query -> awaiting_answers after
\* run_agent(query) returned, awaiting_answers -> report_generated after
\* run_agent(query, answers) returned for answers that are not blank, and
\* report_generated -> initial_query without a call; run_agent is never
\* called in report_generated.
C16_StepStateMachine ==
    [][ /\ ss_step' # ss_step =>
              \/ /\ ss_step = "initial_query"
                 /\ ss_step' = "awaiting_answers"
                 /\ UiCalled
                 /\ uiCall'.returned
                 /\ uiCall'.user_answers = <<>>
              \/ /\ ss_step = "awaiting_answers"
                 /\ ss_step' = "report_generated"
                 /\ UiCalled
                 /\ uiCall'.returned
                 /\ uiCall'.initial_query = ss_initial_query
                 /\ \E i \in 1..Len(uiCall'.user_answers) :
                        uiCall'.user_answers[i] \notin {" ", "\n", "\t", "\r"}
              \/ /\ ss_step = "report_generated"
                 /\ ss_step' = "initial_query"
                 /\ ~UiCalled
        /\ UiCalled => ss_step # "report_generated" ]_vars

\* C16 witness: a session went through all three steps and was started anew.
C16_Witness ==
    /\ ss_step = "initial_query"
    /\ uiCalls >= 2
    /\ uiCall.returned
    /\ uiCall.user_answers # <<>>
    /\ ss_messages = <<>>

\* C19: in step report_generated, final_report is the report text the
\* report generator produced in the run_agent call just made.
C19_FinalReportIsReport ==
    ss_step = "report_generated" =>
        /\ uiCall.returned
        /\ ss_final_report = uiCall.gen.report.value
        /\ ss_messages[Len(ss_messages)].content
               = ReportHeader \o uiCall.gen.report.value

\* C19 witness: the report step was reached after at least one question
\* had been generated in the same call.
C19_Witness ==
    /\ ss_step = "report_generated"
    /\ Len(uiCall.gen.questions.value) >= 1
    /\ Len(ss_final_report) > 0

\* one bullet line per question text, in order
RECURSIVE QuestionBullets(_)
QuestionBullets(qs) ==
    IF Len(qs) = 0 THEN <<>>
    ELSE <<"-", " ">> \o qs[1] \o <<"\n">> \o QuestionBullets(Tail(qs))

\* C20: the assistant message stored when step moves from initial_query to
\* awaiting_answers lists exactly one bullet per probing question the
\* question generator returned, in order, and nothing else.
C20_BulletsAreQuestions ==
    [][ (ss_step = "initial_query" /\ ss_step' = "awaiting_answers") =>
            ss_messages'[Len(ss_messages')].content
                = QuestionsHeader
                  \o QuestionBullets(uiCall'.gen.questions.value) ]_vars

\* the chat history alternates: user entries at odd places, assistant
\* entries at even places
HistoryAlternates ==
    \A i \in 1..Len(ss_messages) :
        ss_messages[i].role = (IF i % 2 = 1 THEN "user" ELSE "assistant")

\* C21: when run_agent raises while a submission is handled, step, messages,
\* initial_query and final_report are left as they were before the
\* submission, and so the chat history always alternates user and assistant
\* entries.
C21_FailedSubmissionLeavesState ==
    /\ [][ (UiCalled /\ ~uiCall'.returned) =>
               /\ ss_step' = ss_step
               /\ ss_messages' = ss_messages
               /\ ss_initial_query' = ss_initial_query
               /\ ss_final_report' = ss_final_report ]_vars
    /\ []HistoryAlternates

====
